---- MODULE Spec2Model ----
(***************************************************************************)
(* Model of the goma-http-provider configuration engine                    *)
(* (provider.HTTPProvider): the index of configuration sources, the cache  *)
(* of loaded bundles, metadata matching, and reload under the two locks    *)
(* reloadMu and cacheMu.                                                   *)
(***************************************************************************)
EXTENDS Naturals, Integers, Sequences, FiniteSets, TLC

(***************************************************************************)
(* Bounds of the model                                                     *)
(***************************************************************************)

\* number of Reload calls that may start in one behaviour (also the clock)
MaxReloads == 2

\* number of configuration directories whose files differ from those read at
\* startup
MaxEdited == 1

\* number of files in a configuration directory whose load is examined
MaxFiles == 3

\* goroutines calling Reload and goroutines calling GetConfig
Reloaders == {"r1", "r2"}
Getters == {"g1"}

\* the metadata keys, and the values a request gives them; the empty string
\* is the value a query parameter such as "?region=" produces
MetaKeys == {"env", "region"}
RequestValues == {"", "prod", "eu"}

(***************************************************************************)
(* Go values                                                               *)
(***************************************************************************)

\* map[string]string: a function from a finite set of keys
MapsOver(K, V) == UNION {[D -> V] : D \in SUBSET K}

EmptyMap == [k \in {} |-> ""]

\* m[k] on a Go map: the zero value "" when k is absent
MapGet(m, k) == IF k \in DOMAIN m THEN m[k] ELSE ""

\* for k, v := range src { dst[k] = v }
MapMerge(dst, src) ==
    [k \in DOMAIN dst \cup DOMAIN src |-> IF k \in DOMAIN src THEN src[k] ELSE dst[k]]

\* strings.ToLower on the strings of the model
ToLower(s) ==
    CASE s = ".JSON" -> ".json"
      [] s = "Env" -> "env"
      [] OTHER -> s

\* strings.Join(elems, "&")
RECURSIVE Join(_)
Join(elems) ==
    IF Len(elems) = 0 THEN ""
    ELSE IF Len(elems) = 1 THEN elems[1]
    ELSE elems[1] \o "&" \o Join(Tail(elems))

\* the orders in which a range loop may visit the keys of a map
RangeOrders(m) ==
    {o \in [1..Cardinality(DOMAIN m) -> DOMAIN m] :
        \A a, b \in DOMAIN o : a # b => o[a] # o[b]}

(***************************************************************************)
(* Static configuration (config.ProviderConfig)                            *)
(***************************************************************************)

\* a nil *HTTPAuth and a nil *BasicAuth
NoAuth == [Nil |-> TRUE]
NoBasicAuth == [Nil |-> TRUE]

BasicAuth(username, password) == [Username |-> username, Password |-> password]

HTTPAuth(apiKey, basicAuth) == [APIKey |-> apiKey, BasicAuth |-> basicAuth]

Configuration(dir, def, meta) ==
    [Directory |-> dir, Auth |-> NoAuth, Default |-> def, Metadata |-> meta]

\* a configuration with an auth: section
Secured(cfg, auth) == [cfg EXCEPT !.Auth = auth]

SrcA == [env |-> "prod"]
SrcB == [env |-> "staging"]
SrcC == [env |-> "prod", region |-> "eu"]

\* the provider configurations the model is run on
ConfigFiles ==
    { \* A{env:prod}, B{env:staging}, default D{}
      << Configuration("d1", FALSE, SrcA), Configuration("d2", FALSE, SrcB),
         Configuration("d3", TRUE, EmptyMap) >>,
      \* A{env:prod}, C{env:prod, region:eu}, no default, both orders
      << Configuration("d1", FALSE, SrcA), Configuration("d2", FALSE, SrcC) >>,
      << Configuration("d1", FALSE, SrcC), Configuration("d2", FALSE, SrcA) >>,
      \* B{env:staging} and a default that declares two keys
      << Configuration("d1", FALSE, SrcB), Configuration("d2", TRUE, SrcC) >> }

\* provider configurations whose sources declare credentials
AuthConfigFiles ==
    { \* A{env:prod} with an API key only, default D{} with basic auth
      << Secured(Configuration("d1", FALSE, SrcA), HTTPAuth("key1", NoBasicAuth)),
         Secured(Configuration("d2", TRUE, EmptyMap),
                 HTTPAuth("", BasicAuth("admin", "secret"))) >>,
      \* A{env:prod} with an API key and basic auth, default D{} without auth
      << Secured(Configuration("d1", FALSE, SrcA),
                 HTTPAuth("key1", BasicAuth("admin", "secret"))),
         Configuration("d2", TRUE, EmptyMap) >> }

\* the directories that exist on the machine
ExistingDirectories == {"d1", "d2", "d3"}

\* the existing directories that a provider configuration names
DirectoriesOf(cfgs) ==
    {cfgs[n].Directory : n \in DOMAIN cfgs} \cap ExistingDirectories

\* provider configurations as they may be written, valid or not: those
\* above, two sources that declare the same metadata (one key, two keys),
\* two sources marked default, no source at all, a source without a
\* directory, a source whose directory does not exist, a source whose
\* basic auth has no password, and a second source without a directory
\* after two defaults
StartupConfigFiles ==
    ConfigFiles \cup
    { << Configuration("d1", FALSE, SrcA), Configuration("d2", FALSE, SrcA) >>,
      << Configuration("d1", FALSE, SrcC), Configuration("d2", FALSE, SrcC) >>,
      << Configuration("d1", TRUE, SrcA), Configuration("d2", TRUE, SrcB) >>,
      << >>,
      << Configuration("", FALSE, SrcA) >>,
      << Configuration("d1", FALSE, SrcA), Configuration("d9", FALSE, SrcB) >>,
      << Secured(Configuration("d1", FALSE, SrcA),
                 HTTPAuth("", BasicAuth("admin", ""))) >>,
      << Configuration("d1", TRUE, SrcA), Configuration("d2", TRUE, SrcB),
         Configuration("", FALSE, SrcC) >> }

\* the errors of Config.validate
ErrNil == "nil"
ErrNoConfigurations == "at least one configuration is required"
ErrDirectoryRequired(i) ==
    "configuration[" \o ToString(i) \o "]: directory is required"
ErrDirectoryMissing(i, dir) ==
    "configuration[" \o ToString(i) \o "]: directory does not exist: " \o dir
ErrBasicAuth == "error, basic auth, username or password missing"
ErrValidate == "only one configuration can be marked as default"

\* the error the body of the loop of validate returns for the configuration at
\* position n (index n - 1 in Go), ErrNil when it goes on; dirs are the
\* directories os.Stat finds
validateOne(cfgs, n, dirs) ==
    IF cfgs[n].Directory = "" THEN ErrDirectoryRequired(n - 1)
    ELSE IF cfgs[n].Directory \notin dirs
    THEN ErrDirectoryMissing(n - 1, cfgs[n].Directory)
    ELSE IF /\ cfgs[n].Auth # NoAuth
            /\ cfgs[n].Auth.BasicAuth # NoBasicAuth
            /\ (cfgs[n].Auth.BasicAuth.Username = "" \/ cfgs[n].Auth.BasicAuth.Password = "")
    THEN ErrBasicAuth
    ELSE ErrNil

\* the loop of validate: the error of the first configuration that has one
validateEach(cfgs, dirs) ==
    IF \E n \in DOMAIN cfgs : validateOne(cfgs, n, dirs) # ErrNil
    THEN validateOne(cfgs,
                     CHOOSE n \in DOMAIN cfgs :
                        /\ validateOne(cfgs, n, dirs) # ErrNil
                        /\ \A m \in 1..(n - 1) : validateOne(cfgs, m, dirs) = ErrNil,
                     dirs)
    ELSE ErrNil

\* validate without the count of the default configurations
validateAnyDefaults(cfgs, dirs) ==
    IF Len(cfgs) = 0 THEN ErrNoConfigurations ELSE validateEach(cfgs, dirs)

\* Config.validate: at least one configuration; each has a directory, which
\* exists, and a basic auth with username and password if it has one; at
\* most one default. The error returned, ErrNil for nil
validate(cfgs, dirs) ==
    IF Len(cfgs) = 0 THEN ErrNoConfigurations
    ELSE IF validateEach(cfgs, dirs) # ErrNil THEN validateEach(cfgs, dirs)
    ELSE IF Cardinality({i \in DOMAIN cfgs : cfgs[i].Default}) > 1 THEN ErrValidate
    ELSE ErrNil

(***************************************************************************)
(* Fragment files and directories                                          *)
(***************************************************************************)

File(ext, ok, routes, middlewares, meta) ==
    [Ext |-> ext, Parses |-> ok, Routes |-> routes,
     Middlewares |-> middlewares, Metadata |-> meta]

\* contents a configuration directory may have, files in walk order: one
\* well-formed fragment beside a file that is no fragment, and the same
\* with a fragment that does not parse
DirV1 == << File(".yaml", TRUE, <<"api">>, <<"auth">>, [env |-> "eu"]),
            File(".txt", FALSE, << >>, << >>, EmptyMap) >>
\* a directory whose fragment has been given one more route
DirV2 == << File(".yaml", TRUE, <<"api", "web">>, <<"auth">>, [env |-> "eu"]),
            File(".txt", FALSE, << >>, << >>, EmptyMap) >>
DirBad == << File(".yaml", TRUE, <<"api">>, <<"auth">>, [env |-> "eu"]),
             File(".JSON", FALSE, << >>, << >>, EmptyMap) >>

\* the files a directory is made of when its load is examined: two
\* fragments that declare the same route name and the same metadata key, a
\* fragment that does not parse, a file that is no fragment, and a fragment
\* with an upper-case extension
FragmentFiles ==
    { File(".yaml", TRUE, <<"api">>, <<"auth">>, [env |-> "eu"]),
      File(".json", TRUE, <<"api">>, <<"cors">>, [env |-> "us", region |-> "eu"]),
      File(".yml", FALSE, << >>, << >>, EmptyMap),
      File(".txt", TRUE, <<"web">>, <<"log">>, [team |-> "x"]),
      File(".JSON", TRUE, <<"api">>, << >>, [region |-> "us"]) }

\* the directories of at most MaxFiles of these files, in walk order
Directories == UNION {[1..n -> FragmentFiles] : n \in 0..MaxFiles}

ConfigBundle(version, routes, middlewares, meta, checksum, timestamp) ==
    [Version |-> version, Routes |-> routes, Middlewares |-> middlewares,
     Metadata |-> meta, Checksum |-> checksum, Timestamp |-> timestamp]

NoBundle == [Nil |-> TRUE]

\* the empty Checksum string
NoChecksum == << >>

\* the zero time.Time
ZeroTime == 0

\* Walk with the metadata of the fragment visited first kept
RECURSIVE WalkFirstWins(_, _)
WalkFirstWins(files, bundle) ==
    IF Len(files) = 0 THEN [err |-> FALSE, bundle |-> bundle]
    ELSE LET f == Head(files)
             ext == ToLower(f.Ext)
         IN IF ext # ".yaml" /\ ext # ".yml" /\ ext # ".json"
            THEN WalkFirstWins(Tail(files), bundle)
            ELSE IF ~f.Parses
            THEN [err |-> TRUE, bundle |-> NoBundle]
            ELSE WalkFirstWins(Tail(files),
                      [bundle EXCEPT
                         !.Routes = @ \o f.Routes,
                         !.Middlewares = @ \o f.Middlewares,
                         !.Metadata = MapMerge(f.Metadata, @)])

\* the filepath.Walk callback folded over the files of a directory
RECURSIVE Walk(_, _)
Walk(files, bundle) ==
    IF Len(files) = 0 THEN [err |-> FALSE, bundle |-> bundle]
    ELSE LET f == Head(files)
             ext == ToLower(f.Ext)
         IN IF ext # ".yaml" /\ ext # ".yml" /\ ext # ".json"
            THEN Walk(Tail(files), bundle)
            ELSE IF ~f.Parses
            THEN [err |-> TRUE, bundle |-> NoBundle]
            ELSE Walk(Tail(files),
                      [bundle EXCEPT
                         !.Routes = @ \o f.Routes,
                         !.Middlewares = @ \o f.Middlewares,
                         !.Metadata = MapMerge(@, f.Metadata)])

\* loadConfigFromDirectory that passes over a fragment it cannot parse
Parsed(f) == f.Parses

loadConfigFromDirectorySkipBad(files) ==
    Walk(SelectSeq(files, Parsed),
         ConfigBundle("1.0", <<>>, <<>>, EmptyMap, NoChecksum, ZeroTime))

loadConfigFromDirectory(files) ==
    Walk(files, ConfigBundle("1.0", <<>>, <<>>, EmptyMap, NoChecksum, ZeroTime))

\* calculateChecksum without temp.Timestamp = time.Time{}
calculateChecksumKeepTimestamp(bundle) ==
    << "sha256", [bundle EXCEPT !.Checksum = NoChecksum] >>

\* sha256 over the JSON of the bundle with Checksum and Timestamp blanked:
\* the digest is determined by the marshalled fields, and json.Marshal
\* writes map keys in sorted order
calculateChecksum(bundle) ==
    << "sha256", [bundle EXCEPT !.Checksum = NoChecksum, !.Timestamp = ZeroTime] >>

\* a cache entry; ExpiresAt is written and never read
CachedConfig(bundle) == [Bundle |-> bundle, ETag |-> bundle.Checksum]

(***************************************************************************)
(* Cache keys                                                              *)
(***************************************************************************)

\* BuildCacheKey: the keys it can return, one per order in which the range
\* loop visits the map
BuildCacheKey(metadata) ==
    IF Cardinality(DOMAIN metadata) = 0 THEN {"default"}
    ELSE {Join([n \in DOMAIN o |-> ToLower(o[n]) \o "=" \o ToLower(metadata[o[n]])]) :
            o \in RangeOrders(metadata)}

(***************************************************************************)
(* State                                                                   *)
(***************************************************************************)

VARIABLES
    Configurations, \* p.config.Configurations: directory, default flag, metadata
    ids,            \* cfg.ID of each configuration, rewritten by initialize
    cache,          \* p.cache: id -> CachedConfig
    defaultID,      \* p.defaultID
    lastReload,     \* p.lastReload
    reloadMu,       \* holder of p.reloadMu, or NoOne
    cacheMu,        \* p.cacheMu: the writer holding it and the readers holding it
    disk,           \* the files of each configuration directory
    now,            \* the clock read by time.Now()
    reload,         \* per Reload call: position and locals of initialize
    get             \* per GetConfig call: position, arguments, locals, result

vars == << Configurations, ids, cache, defaultID, lastReload, reloadMu, cacheMu,
           disk, now, reload, get >>

NoOne == "none"
NoCfg == 0

\* the part of the provider Resolve reads: ids, cache and defaultID
IndexOf(i, c, d) == [ids |-> i, cache |-> c, defaultID |-> d]
Index == IndexOf(ids, cache, defaultID)
NoIndex == [Nil |-> TRUE]

ErrNotFound == "no configuration matched metadata"
ErrNotLoaded == "config not loaded"
ErrDuplicate == "duplicate configuration id"
ErrLoad == "failed to load config"

(***************************************************************************)
(* Resolution                                                              *)
(***************************************************************************)

\* the inner loop of matchConfiguration: the number of request keys k with
\* cfg.Metadata[k] == v
Score(cfg, metadata) ==
    Cardinality({k \in DOMAIN metadata : MapGet(cfg.Metadata, k) = metadata[k]})

\* the outer loop of matchConfiguration from configuration i on
RECURSIVE BestFrom(_, _, _, _)
BestFrom(i, best, bestScore, metadata) ==
    IF i > Len(Configurations) THEN best
    ELSE IF Score(Configurations[i], metadata) > bestScore
         THEN BestFrom(i + 1, i, Score(Configurations[i], metadata), metadata)
         ELSE BestFrom(i + 1, best, bestScore, metadata)

\* the fallback loop of matchConfiguration: the first configuration whose
\* ID is the default one
DefaultFallback(idx) ==
    IF idx.defaultID # "" /\ \E i \in DOMAIN Configurations : idx.ids[i] = idx.defaultID
    THEN CHOOSE i \in DOMAIN Configurations :
            /\ idx.ids[i] = idx.defaultID
            /\ \A j \in 1..(i - 1) : idx.ids[j] # idx.defaultID
    ELSE NoCfg

\* matchConfiguration: the position of the configuration it returns, NoCfg
\* for nil
matchConfiguration(metadata, idx) ==
    IF BestFrom(1, NoCfg, 0, metadata) # NoCfg
    THEN BestFrom(1, NoCfg, 0, metadata)
    ELSE DefaultFallback(idx)

Result(err, cfg, bundle) == [err |-> err, cfg |-> cfg, bundle |-> bundle]
NoResult == Result("pending", NoCfg, NoBundle)

\* the cache lookup of GetConfig for a matched configuration
Lookup(cfg, idx) ==
    IF idx.ids[cfg] \in DOMAIN idx.cache
    THEN Result(ErrNil, cfg, idx.cache[idx.ids[cfg]].Bundle)
    ELSE Result(ErrNotLoaded, NoCfg, NoBundle)

\* GetConfig run without interleaving on the index idx
GetConfig(metadata, idx) ==
    IF matchConfiguration(metadata, idx) = NoCfg
    THEN Result(ErrNotFound, NoCfg, NoBundle)
    ELSE Lookup(matchConfiguration(metadata, idx), idx)

Requests == MapsOver(MetaKeys, RequestValues)

\* the requests made while reloads run: no metadata, one key, two keys
ProbeRequests == {EmptyMap, [env |-> "prod"], [env |-> "prod", region |-> "eu"]}

(***************************************************************************)
(* Initial state: NewHTTPProvider has returned without error               *)
(***************************************************************************)

\* BuildBundle with the fragments' metadata merged over the declared
BuildBundleFragmentsWin(cfg, files, t) ==
    LET loaded == loadConfigFromDirectory(files)
        merged == [loaded.bundle EXCEPT !.Metadata = MapMerge(cfg.Metadata, @)]
    IN IF loaded.err THEN loaded
       ELSE [err |-> FALSE,
             bundle |-> [merged EXCEPT !.Checksum = calculateChecksum(merged),
                                       !.Timestamp = t]]

\* lines 712-724 of initialize: load the directory, merge the declared
\* metadata over the fragments', set checksum and timestamp
BuildBundle(cfg, files, t) ==
    LET loaded == loadConfigFromDirectory(files)
        merged == [loaded.bundle EXCEPT !.Metadata = MapMerge(@, cfg.Metadata)]
    IN IF loaded.err THEN loaded
       ELSE [err |-> FALSE,
             bundle |-> [merged EXCEPT !.Checksum = calculateChecksum(merged),
                                       !.Timestamp = t]]

\* defaultID after a complete pass: the ID of the last default configuration
LastDefault(cfgs, i) ==
    IF \E n \in DOMAIN cfgs : cfgs[n].Default
    THEN i[CHOOSE n \in DOMAIN cfgs :
              cfgs[n].Default /\ \A m \in DOMAIN cfgs : cfgs[m].Default => m <= n]
    ELSE ""

\* boot: initialize is called by NewHTTPProvider at startup, not by Reload
Idle == [pc |-> "idle", i |-> 0, seenIDs |-> {}, bundle |-> NoBundle,
         err |-> ErrNil, pre |-> NoIndex, boot |-> FALSE]

\* main before config.New: the configuration file is parsed, not validated
Booting == [Idle EXCEPT !.pc = "validate", !.boot = TRUE]

\* an HTTP request: the query parameters, the headers that carry metadata,
\* and the X-API-Key, Authorization (basic) and If-None-Match headers
Request(query, header, apiKey, basicAuth, ifNoneMatch) ==
    [Route |-> "/config", Query |-> query, Header |-> header, APIKey |-> apiKey,
     BasicAuth |-> basicAuth, IfNoneMatch |-> ifNoneMatch]

\* the request sent to another route: /stats, /reload or /healthz
OnRoute(r, route) == [r EXCEPT !.Route = route]

NoRequest == [Nil |-> TRUE]

\* the response a handler writes: status, message, ETag header, body
Response(status, message, etag, body) ==
    [status |-> status, message |-> message, etag |-> etag, body |-> body]

NoResponse == [Nil |-> TRUE]

Waiting == [pc |-> "idle", metadata |-> EmptyMap, cfg |-> NoCfg, result |-> NoResult,
            request |-> NoRequest, response |-> NoResponse]

\* the state NewHTTPProvider leaves for one of the provider configurations files
InitThreads(files, callers) ==
    /\ Configurations \in
          {c \in files : validate(c, DirectoriesOf(c)) = ErrNil}
    /\ disk = [d \in DirectoriesOf(Configurations) |-> DirV1]
    /\ now = 0
    \* the first initialize passed the duplicate check with the keys it built
    /\ ids \in {i \in [DOMAIN Configurations ->
                      UNION {BuildCacheKey(Configurations[n].Metadata) :
                               n \in DOMAIN Configurations}] :
               /\ \A n \in DOMAIN i : i[n] \in BuildCacheKey(Configurations[n].Metadata)
               /\ \A n, m \in DOMAIN i : n # m => i[n] # i[m]}
    /\ cache = [k \in {ids[n] : n \in DOMAIN ids} |->
                  CachedConfig(BuildBundle(
                      Configurations[CHOOSE n \in DOMAIN ids : ids[n] = k],
                      DirV1, 0).bundle)]
    /\ defaultID = LastDefault(Configurations, ids)
    /\ lastReload = 0
    /\ reloadMu = NoOne
    /\ cacheMu = [writer |-> NoOne, readers |-> {}]
    /\ reload = [r \in Reloaders |-> Idle]
    /\ get = [g \in callers |-> Waiting]

\* the state NewHTTPProvider leaves for one of the provider configurations files
InitWith(files) == InitThreads(files, Getters)

Init == InitWith(ConfigFiles)

\* the process starts on one of the provider configurations files, its
\* directories holding files of dirs: nothing is validated, no provider is
\* constructed
InitBoot(files, dirs) ==
    /\ Configurations \in files
    /\ disk \in [DirectoriesOf(Configurations) -> dirs]
    /\ now = 0
    /\ ids = [n \in DOMAIN Configurations |-> ""]
    /\ cache = << >>
    /\ defaultID = ""
    /\ lastReload = 0
    /\ reloadMu = NoOne
    /\ cacheMu = [writer |-> NoOne, readers |-> {}]
    /\ reload = [r \in Reloaders |-> IF r = "r1" THEN Booting ELSE Idle]
    /\ get = [g \in Getters |-> Waiting]

InitStartup == InitBoot(StartupConfigFiles, {DirV1})

(***************************************************************************)
(* Reload: the steps of initialize                                         *)
(***************************************************************************)

\* config.New: validate; on an error main exits, otherwise it calls
\* NewHTTPProvider, which calls initialize
Validate(r) ==
    /\ reload[r].pc = "validate"
    /\ LET err == validate(Configurations, DOMAIN disk)
       IN reload' = [reload EXCEPT
                       ![r].pc = IF err = ErrNil THEN "lock" ELSE "fatal",
                       ![r].err = err]
    /\ UNCHANGED << Configurations, ids, cache, defaultID, lastReload, reloadMu,
                    cacheMu, disk, now, get >>

\* the Reload calls made so far, started or waiting for reloadMu
ReloadCalls == now + Cardinality({r \in Reloaders : reload[r].pc = "lock"})

\* Reload is called and reaches p.reloadMu.Lock()
CallReload(r) ==
    /\ reload[r].pc = "idle"
    /\ ReloadCalls < MaxReloads
    /\ reload' = [reload EXCEPT ![r].pc = "lock"]
    /\ UNCHANGED << Configurations, ids, cache, defaultID, lastReload, reloadMu,
                    cacheMu, disk, now, get >>

\* LockReloadMu without the wait for the holder to unlock
LockReloadMuNoWait(r) ==
    /\ reload[r].pc = "lock"
    /\ reloadMu' = r
    /\ now' = now + 1
    /\ reload' = [reload EXCEPT ![r].pc = "clearLock", ![r].pre = Index]
    /\ UNCHANGED << Configurations, ids, cache, defaultID, lastReload, cacheMu,
                    disk, get >>

\* p.reloadMu.Lock() returns; time has passed since the previous reload
LockReloadMu(r) ==
    /\ reload[r].pc = "lock"
    /\ reloadMu = NoOne
    /\ reloadMu' = r
    /\ now' = now + 1
    /\ reload' = [reload EXCEPT ![r].pc = "clearLock", ![r].pre = Index]
    /\ UNCHANGED << Configurations, ids, cache, defaultID, lastReload, cacheMu,
                    disk, get >>

\* p.cacheMu.Lock() returns: no writer and no reader holds the lock
LockCacheMu(r) ==
    /\ reload[r].pc \in {"clearLock", "storeLock"}
    /\ cacheMu.writer = NoOne
    /\ cacheMu.readers = {}
    /\ cacheMu' = [cacheMu EXCEPT !.writer = r]
    /\ reload' = [reload EXCEPT
                    ![r].pc = IF reload[r].pc = "clearLock" THEN "clear" ELSE "store"]
    /\ UNCHANGED << Configurations, ids, cache, defaultID, lastReload, reloadMu,
                    disk, now, get >>

\* ClearCache with the unlock of cacheMu left out
ClearCacheKeepLock(r) ==
    /\ reload[r].pc = "clear"
    /\ cache' = << >>
    /\ reload' = [reload EXCEPT ![r].pc = "key", ![r].i = 1, ![r].seenIDs = {}]
    /\ UNCHANGED << Configurations, ids, defaultID, lastReload, reloadMu, cacheMu,
                    disk, now, get >>

\* ClearCache without p.cache = make(...)
ClearCacheKeepEntries(r) ==
    /\ reload[r].pc = "clear"
    /\ cacheMu' = [cacheMu EXCEPT !.writer = NoOne]
    /\ reload' = [reload EXCEPT ![r].pc = "key", ![r].i = 1, ![r].seenIDs = {}]
    /\ UNCHANGED << Configurations, ids, cache, defaultID, lastReload, reloadMu,
                    disk, now, get >>

\* p.cache = make(...); p.cacheMu.Unlock(); seenIDs := map[string]struct{}{}
ClearCache(r) ==
    /\ reload[r].pc = "clear"
    /\ cache' = << >>
    /\ cacheMu' = [cacheMu EXCEPT !.writer = NoOne]
    /\ reload' = [reload EXCEPT ![r].pc = "key", ![r].i = 1, ![r].seenIDs = {}]
    /\ UNCHANGED << Configurations, ids, defaultID, lastReload, reloadMu, disk,
                    now, get >>

\* the head of the loop body: cfg.ID = BuildCacheKey(cfg.Metadata) and the
\* checks on it
BuildKey(r) ==
    /\ reload[r].pc = "key"
    /\ reload[r].i <= Len(Configurations)
    /\ \E key \in BuildCacheKey(Configurations[reload[r].i].Metadata) :
          /\ ids' = [ids EXCEPT ![reload[r].i] = key]
          /\ reload' = [reload EXCEPT
                ![r].pc = IF key = "" \/ key \in reload[r].seenIDs
                          THEN "unlock" ELSE "load",
                ![r].err = IF key = "" THEN "configuration id is required"
                           ELSE IF key \in reload[r].seenIDs THEN ErrDuplicate
                           ELSE ErrNil,
                ![r].seenIDs = IF key = "" THEN @ ELSE @ \cup {key}]
    /\ UNCHANGED << Configurations, cache, defaultID, lastReload, reloadMu, cacheMu,
                    disk, now, get >>

\* loadConfigFromDirectory, the metadata merge, checksum and timestamp
LoadDirectory(r) ==
    /\ reload[r].pc = "load"
    /\ LET cfg == Configurations[reload[r].i]
           built == BuildBundle(cfg, disk[cfg.Directory], now)
       IN reload' = [reload EXCEPT
                       ![r].pc = IF built.err THEN "unlock" ELSE "storeLock",
                       ![r].err = IF built.err THEN ErrLoad ELSE ErrNil,
                       ![r].bundle = built.bundle]
    /\ UNCHANGED << Configurations, ids, cache, defaultID, lastReload, reloadMu,
                    cacheMu, disk, now, get >>

\* p.cache[cfg.ID] = &CachedConfig{...}; p.cacheMu.Unlock(); the test of
\* cfg.Default, and the next iteration when it is false
StoreBundle(r) ==
    /\ reload[r].pc = "store"
    /\ LET n == reload[r].i
           id == ids[n]
       IN /\ cache' = [k \in DOMAIN cache \cup {id} |->
                          IF k = id THEN CachedConfig(reload[r].bundle) ELSE cache[k]]
          /\ reload' = [reload EXCEPT ![r] =
                          IF Configurations[n].Default
                          THEN [@ EXCEPT !.pc = "default", !.bundle = NoBundle]
                          ELSE [@ EXCEPT !.pc = "key", !.i = @ + 1,
                                         !.bundle = NoBundle]]
    /\ cacheMu' = [cacheMu EXCEPT !.writer = NoOne]
    /\ UNCHANGED << Configurations, ids, defaultID, lastReload, reloadMu, disk,
                    now, get >>

\* p.defaultID = cfg.ID, written after cacheMu has been released, and the
\* next iteration
SetDefaultID(r) ==
    /\ reload[r].pc = "default"
    /\ defaultID' = ids[reload[r].i]
    /\ reload' = [reload EXCEPT ![r].pc = "key", ![r].i = @ + 1]
    /\ UNCHANGED << Configurations, ids, cache, lastReload, reloadMu, cacheMu,
                    disk, now, get >>

\* FinishLoad without p.lastReload = time.Now()
FinishLoadNoStamp(r) ==
    /\ reload[r].pc = "key"
    /\ reload[r].i > Len(Configurations)
    /\ reload' = [reload EXCEPT ![r].pc = "unlock", ![r].err = ErrNil]
    /\ UNCHANGED << Configurations, ids, cache, defaultID, lastReload, reloadMu,
                    cacheMu, disk, now, get >>

\* the loop is over: p.lastReload = time.Now(); return nil
FinishLoad(r) ==
    /\ reload[r].pc = "key"
    /\ reload[r].i > Len(Configurations)
    /\ lastReload' = now
    /\ reload' = [reload EXCEPT ![r].pc = "unlock", ![r].err = ErrNil]
    /\ UNCHANGED << Configurations, ids, cache, defaultID, reloadMu, cacheMu, disk,
                    now, get >>

\* the deferred p.reloadMu.Unlock(); Reload returns its error to its caller,
\* NewHTTPProvider returns it to main, which exits on it
UnlockReloadMu(r) ==
    /\ reload[r].pc = "unlock"
    /\ reloadMu' = NoOne
    /\ reload' = [reload EXCEPT ![r] =
                    IF reload[r].boot /\ reload[r].err # ErrNil
                    THEN [@ EXCEPT !.pc = "fatal"]
                    ELSE Idle]
    /\ UNCHANGED << Configurations, ids, cache, defaultID, lastReload, cacheMu,
                    disk, now, get >>

(***************************************************************************)
(* Resolve: the steps of GetConfig                                         *)
(***************************************************************************)

\* GetConfig is called: matchConfiguration, and the not-found return.
\* matchConfiguration reads cfg.ID and p.defaultID without a lock; each read
\* yields the value of the latest write of initialize
CallGetConfig(g, metadata) ==
    /\ get[g].pc = "idle"
    /\ LET cfg == matchConfiguration(metadata, Index)
       IN get' = [get EXCEPT ![g] =
                    IF cfg = NoCfg
                    THEN [@ EXCEPT !.pc = "done", !.metadata = metadata,
                                   !.cfg = NoCfg,
                                   !.result = Result(ErrNotFound, NoCfg, NoBundle)]
                    ELSE [@ EXCEPT !.pc = "rlock", !.metadata = metadata,
                                   !.cfg = cfg, !.result = NoResult]]
    /\ UNCHANGED << Configurations, ids, cache, defaultID, lastReload, reloadMu,
                    cacheMu, disk, now, reload >>

\* p.cacheMu.RLock() returns: no writer holds the lock
RLockCacheMu(g) ==
    /\ get[g].pc = "rlock"
    /\ cacheMu.writer = NoOne
    /\ cacheMu' = [cacheMu EXCEPT !.readers = @ \cup {g}]
    /\ get' = [get EXCEPT ![g].pc = "read"]
    /\ UNCHANGED << Configurations, ids, cache, defaultID, lastReload, reloadMu,
                    disk, now, reload >>

\* ReadCache that takes the entry out of the cache as it reads it
ReadCacheEvict(g) ==
    /\ get[g].pc = "read"
    /\ cacheMu' = [cacheMu EXCEPT !.readers = @ \ {g}]
    /\ get' = [get EXCEPT ![g].pc = "done", ![g].result = Lookup(get[g].cfg, Index)]
    /\ cache' = [k \in DOMAIN cache \ {ids[get[g].cfg]} |-> cache[k]]
    /\ UNCHANGED << Configurations, ids, defaultID, lastReload, reloadMu,
                    disk, now, reload >>

\* cached := p.cache[cfg.ID]; p.cacheMu.RUnlock(); the two returns
ReadCache(g) ==
    /\ get[g].pc = "read"
    /\ cacheMu' = [cacheMu EXCEPT !.readers = @ \ {g}]
    /\ get' = [get EXCEPT ![g].pc = "done", ![g].result = Lookup(get[g].cfg, Index)]
    /\ UNCHANGED << Configurations, ids, cache, defaultID, lastReload, reloadMu,
                    disk, now, reload >>

\* the caller has the result and may call again
ReturnGetConfig(g) ==
    /\ get[g].pc = "done"
    /\ get' = [get EXCEPT ![g] = Waiting]
    /\ UNCHANGED << Configurations, ids, cache, defaultID, lastReload, reloadMu,
                    cacheMu, disk, now, reload >>

(***************************************************************************)
(* Environment                                                             *)
(***************************************************************************)

\* an operator rewrites the fragments of one configuration directory
EditDirectory(d, files) ==
    /\ disk[d] # files
    /\ disk' = [disk EXCEPT ![d] = files]
    /\ Cardinality({e \in DOMAIN disk : disk'[e] # DirV1}) <= MaxEdited
    /\ UNCHANGED << Configurations, ids, cache, defaultID, lastReload, reloadMu,
                    cacheMu, now, reload, get >>

\* one step of the provider serving the Reload calls of rs and GetConfig
\* calls with metadata from requests, while directories are rewritten to dirs
Step(rs, requests, dirs) ==
    \/ \E r \in rs :
          \/ CallReload(r)
          \/ LockReloadMu(r)
          \/ LockCacheMu(r)
          \/ ClearCache(r)
          \/ BuildKey(r)
          \/ LoadDirectory(r)
          \/ StoreBundle(r)
          \/ SetDefaultID(r)
          \/ FinishLoad(r)
          \/ UnlockReloadMu(r)
    \/ \E g \in Getters :
          \/ \E metadata \in requests : CallGetConfig(g, metadata)
          \/ RLockCacheMu(g)
          \/ ReadCache(g)
          \/ ReturnGetConfig(g)
    \/ \E d \in DOMAIN disk, files \in dirs : EditDirectory(d, files)

\* concurrent reloads and resolves
Next == Step(Reloaders, ProbeRequests, {DirV1, DirBad})

Spec == Init /\ [][Next]_vars

\* resolves of every request metadata, around the reloads of one caller
NextResolve == Step({"r1"}, Requests, {DirV1, DirBad})

SpecResolve == Init /\ [][NextResolve]_vars

\* GetStats run without interleaving: ConfigsLoaded and LastReload
GetStats == [ConfigsLoaded |-> Cardinality(DOMAIN cache), LastReload |-> lastReload]

\* the routes are served: NewHTTPProvider has returned without error
Serving == \A r \in Reloaders : ~reload[r].boot

\* startup from a configuration file, then reloads and resolves
NextStartup ==
    \/ \E r \in {"r1"} :
          \/ Validate(r)
          \/ CallReload(r)
          \/ LockReloadMu(r)
          \/ LockCacheMu(r)
          \/ ClearCache(r)
          \/ BuildKey(r)
          \/ LoadDirectory(r)
          \/ StoreBundle(r)
          \/ SetDefaultID(r)
          \/ FinishLoad(r)
          \/ UnlockReloadMu(r)
    \/ \E g \in Getters :
          \/ \E metadata \in ProbeRequests : Serving /\ CallGetConfig(g, metadata)
          \/ RLockCacheMu(g)
          \/ ReadCache(g)
          \/ ReturnGetConfig(g)
    \/ \E d \in DOMAIN disk, files \in {DirV1, DirBad} : EditDirectory(d, files)

SpecStartup == InitStartup /\ [][NextStartup]_vars

\* the first load of one source whose directory is any of Directories: A,
\* C, or a default D{}
LoadConfigFiles ==
    { << Configuration("d1", FALSE, SrcA) >>, << Configuration("d1", FALSE, SrcC) >>,
      << Configuration("d1", TRUE, EmptyMap) >> }

NextLoad ==
    \E r \in {"r1"} :
        \/ Validate(r)
        \/ LockReloadMu(r)
        \/ LockCacheMu(r)
        \/ ClearCache(r)
        \/ BuildKey(r)
        \/ LoadDirectory(r)
        \/ StoreBundle(r)
        \/ SetDefaultID(r)
        \/ FinishLoad(r)
        \/ UnlockReloadMu(r)

SpecLoad == InitBoot(LoadConfigFiles, Directories) /\ [][NextLoad]_vars

(***************************************************************************)
(* The HTTP service (services.ProviderService) in front of the provider    *)
(***************************************************************************)

\* strings.HasPrefix(key, "X-Goma-Meta-") on the header names of the model
HasMetaPrefix(key) == key \in {"X-Goma-Meta-Env", "X-Goma-Meta-Region"}

\* strings.ToLower(strings.TrimPrefix(key, "X-Goma-Meta-"))
MetaKey(key) ==
    CASE key = "X-Goma-Meta-Env" -> "env"
      [] key = "X-Goma-Meta-Region" -> "region"
      [] OTHER -> key

\* ExtractMetadata: the query parameters, then the X-Goma-Meta- headers
ExtractMetadata(r) ==
    LET hs == {h \in DOMAIN r.Header : HasMetaPrefix(h)}
        fromHeaders == [k \in {MetaKey(h) : h \in hs} |->
                          r.Header[CHOOSE h \in hs : MetaKey(h) = k]]
    IN MapMerge(r.Query, fromHeaders)

\* Authenticate: TRUE when it returns nil
Authenticate(r, cfg) ==
    IF cfg.Auth = NoAuth THEN TRUE
    ELSE IF cfg.Auth.BasicAuth = NoBasicAuth THEN TRUE
    ELSE IF cfg.Auth.APIKey # "" /\ r.APIKey = cfg.Auth.APIKey THEN TRUE
    ELSE IF /\ cfg.Auth.BasicAuth.Username # ""
            /\ r.BasicAuth # NoBasicAuth
            /\ r.BasicAuth.Username = cfg.Auth.BasicAuth.Username
            /\ r.BasicAuth.Password = cfg.Auth.BasicAuth.Password THEN TRUE
    ELSE FALSE

\* the requests clients send: metadata in the query or in a header, with
\* no, the right or a wrong API key, with no, the right or wrong basic
\* credentials, and with no If-None-Match or one of the ETags in etags
ServiceRequests(etags) ==
    {Request(m[1], m[2], apiKey, basicAuth, ifNoneMatch) :
        m \in {<< EmptyMap, EmptyMap >>,
               << [env |-> "prod"], EmptyMap >>,
               << EmptyMap, [h \in {"X-Goma-Meta-Env"} |-> "prod"] >>},
        apiKey \in {"", "key1", "wrong"},
        basicAuth \in {NoBasicAuth, BasicAuth("admin", "secret"),
                       BasicAuth("admin", "wrong")},
        ifNoneMatch \in {NoChecksum} \cup etags}

\* a GET /config request reaches ProviderService.GetConfig
ReceiveGetConfig(g, r) ==
    /\ get[g].pc = "idle"
    /\ get[g].request = NoRequest
    /\ get' = [get EXCEPT ![g].request = r]
    /\ UNCHANGED << Configurations, ids, cache, defaultID, lastReload, reloadMu,
                    cacheMu, disk, now, reload >>

\* configBundle: ExtractMetadata, then Provider.GetConfig is called
CallConfigBundle(g) ==
    /\ get[g].request # NoRequest
    /\ CallGetConfig(g, ExtractMetadata(get[g].request))

\* RespondGetConfig that answers "No change" to every If-None-Match
RespondGetConfigAnyMatch(g) ==
    /\ get[g].pc = "done"
    /\ get[g].request # NoRequest
    /\ get[g].request.Route = "/config"
    /\ LET r == get[g].request
           res == get[g].result
       IN get' = [get EXCEPT ![g].pc = "responded", ![g].response =
                    IF res.err # ErrNil
                    THEN Response(404, "Config not found", NoChecksum, NoBundle)
                    ELSE IF ~Authenticate(r, Configurations[res.cfg])
                    THEN Response(401, "Unauthorized", NoChecksum, NoBundle)
                    ELSE IF r.IfNoneMatch # NoChecksum
                    THEN Response(304, "No change", res.bundle.Checksum, NoBundle)
                    ELSE Response(200, "", res.bundle.Checksum, res.bundle)]
    /\ UNCHANGED << Configurations, ids, cache, defaultID, lastReload, reloadMu,
                    cacheMu, disk, now, reload >>

\* ProviderService.GetConfig after configBundle has returned: not found,
\* unauthorized, not modified, or the bundle
RespondGetConfig(g) ==
    /\ get[g].pc = "done"
    /\ get[g].request # NoRequest
    /\ get[g].request.Route = "/config"
    /\ LET r == get[g].request
           res == get[g].result
       IN get' = [get EXCEPT ![g].pc = "responded", ![g].response =
                    IF res.err # ErrNil
                    THEN Response(404, "Config not found", NoChecksum, NoBundle)
                    ELSE IF ~Authenticate(r, Configurations[res.cfg])
                    THEN Response(401, "Unauthorized", NoChecksum, NoBundle)
                    ELSE IF r.IfNoneMatch = res.bundle.Checksum
                    THEN Response(304, "No change", res.bundle.Checksum, NoBundle)
                    ELSE Response(200, "", res.bundle.Checksum, res.bundle)]
    /\ UNCHANGED << Configurations, ids, cache, defaultID, lastReload, reloadMu,
                    cacheMu, disk, now, reload >>

\* the response is sent; the client may send another request
CompleteRequest(g) ==
    /\ get[g].pc = "responded"
    /\ get' = [get EXCEPT ![g] = Waiting]
    /\ UNCHANGED << Configurations, ids, cache, defaultID, lastReload, reloadMu,
                    cacheMu, disk, now, reload >>

\* HealthCheck that resolves the request first and answers only then
HealthCheckResolved(g, r) ==
    /\ get[g].pc = "idle"
    /\ get[g].request = NoRequest
    /\ GetConfig(ExtractMetadata(r), Index).err = ErrNil
    /\ get' = [get EXCEPT ![g].pc = "responded",
                          ![g].request = OnRoute(r, "/healthz"),
                          ![g].result = GetConfig(ExtractMetadata(r), Index),
                          ![g].response = Response(200, "healthy", NoChecksum, NoBundle)]
    /\ UNCHANGED << Configurations, ids, cache, defaultID, lastReload, reloadMu,
                    cacheMu, disk, now, reload >>

\* a GET /healthz request: ProviderService.HealthCheck answers it without
\* using the provider
HealthCheck(g, r) ==
    /\ get[g].pc = "idle"
    /\ get[g].request = NoRequest
    /\ get' = [get EXCEPT ![g].pc = "responded",
                          ![g].request = OnRoute(r, "/healthz"),
                          ![g].response = Response(200, "healthy", NoChecksum, NoBundle)]
    /\ UNCHANGED << Configurations, ids, cache, defaultID, lastReload, reloadMu,
                    cacheMu, disk, now, reload >>

\* a GET /stats request reaches ProviderService.GetStats
ReceiveGetStats(g, r) ==
    /\ get[g].pc = "idle"
    /\ get[g].request = NoRequest
    /\ get' = [get EXCEPT ![g].request = OnRoute(r, "/stats")]
    /\ UNCHANGED << Configurations, ids, cache, defaultID, lastReload, reloadMu,
                    cacheMu, disk, now, reload >>

\* a GET /reload request reaches ProviderService.ReloadConfig
ReceiveReloadConfig(g, r) ==
    /\ get[g].pc = "idle"
    /\ get[g].request = NoRequest
    /\ get' = [get EXCEPT ![g].request = OnRoute(r, "/reload")]
    /\ UNCHANGED << Configurations, ids, cache, defaultID, lastReload, reloadMu,
                    cacheMu, disk, now, reload >>

\* Authorize that does not call Authenticate
AuthorizeSkipAuth(g) ==
    /\ get[g].pc = "done"
    /\ get[g].request # NoRequest
    /\ get[g].request.Route \in {"/stats", "/reload"}
    /\ LET res == get[g].result
       IN get' = [get EXCEPT ![g] =
                    IF res.err # ErrNil
                    THEN [@ EXCEPT !.pc = "responded", !.response =
                            Response(404, "Config not found", NoChecksum, NoBundle)]
                    ELSE [@ EXCEPT !.pc = IF get[g].request.Route = "/stats"
                                         THEN "stats" ELSE "reload"]]
    /\ UNCHANGED << Configurations, ids, cache, defaultID, lastReload, reloadMu,
                    cacheMu, disk, now, reload >>

\* GetStats and ReloadConfig after configBundle has returned: not found,
\* unauthorized, or on to the action of the handler
Authorize(g) ==
    /\ get[g].pc = "done"
    /\ get[g].request # NoRequest
    /\ get[g].request.Route \in {"/stats", "/reload"}
    /\ LET r == get[g].request
           res == get[g].result
       IN get' = [get EXCEPT ![g] =
                    IF res.err # ErrNil
                    THEN [@ EXCEPT !.pc = "responded", !.response =
                            Response(404, "Config not found", NoChecksum, NoBundle)]
                    ELSE IF ~Authenticate(r, Configurations[res.cfg])
                    THEN [@ EXCEPT !.pc = "responded", !.response =
                            Response(401, "Unauthorized", NoChecksum, NoBundle)]
                    ELSE [@ EXCEPT !.pc = IF r.Route = "/stats"
                                         THEN "stats" ELSE "reload"]]
    /\ UNCHANGED << Configurations, ids, cache, defaultID, lastReload, reloadMu,
                    cacheMu, disk, now, reload >>

\* Provider.GetStats: len(p.cache) between cacheMu.RLock and RUnlock
CountConfigs(g) ==
    /\ get[g].pc = "stats"
    /\ cacheMu.writer = NoOne
    /\ get' = [get EXCEPT ![g].pc = "timestamp", ![g].response =
                  Response("pending", "", NoChecksum,
                           [ConfigsLoaded |-> Cardinality(DOMAIN cache)])]
    /\ UNCHANGED << Configurations, ids, cache, defaultID, lastReload, reloadMu,
                    cacheMu, disk, now, reload >>

\* GetReloadTimestamp between reloadMu.Lock and Unlock; c.OK(stats)
RespondGetStats(g) ==
    /\ get[g].pc = "timestamp"
    /\ reloadMu = NoOne
    /\ get' = [get EXCEPT ![g].pc = "responded", ![g].response =
                  Response(200, "", NoChecksum,
                           [ConfigsLoaded |-> get[g].response.body.ConfigsLoaded,
                            LastReload |-> lastReload])]
    /\ UNCHANGED << Configurations, ids, cache, defaultID, lastReload, reloadMu,
                    cacheMu, disk, now, reload >>

\* ReloadConfig calls p.Provider.Reload(), which runs as call r
CallProviderReload(g, r) ==
    /\ get[g].pc = "reload"
    /\ reload[r].pc = "idle"
    /\ ReloadCalls < MaxReloads
    /\ reload' = [reload EXCEPT ![r].pc = "lock"]
    /\ get' = [get EXCEPT ![g].pc = "reloading"]
    /\ UNCHANGED << Configurations, ids, cache, defaultID, lastReload, reloadMu,
                    cacheMu, disk, now >>

\* Reload returns to ReloadConfig after the deferred unlock: "Reload failed"
\* on an error
ReturnProviderReload(g, r) ==
    /\ get[g].pc = "reloading"
    /\ reload[r].pc = "unlock"
    /\ reloadMu' = NoOne
    /\ reload' = [reload EXCEPT ![r] = Idle]
    /\ get' = [get EXCEPT ![g] =
                  IF reload[r].err # ErrNil
                  THEN [@ EXCEPT !.pc = "responded", !.response =
                          Response(500, "Reload failed", NoChecksum, NoBundle)]
                  ELSE [@ EXCEPT !.pc = "reloaded"]]
    /\ UNCHANGED << Configurations, ids, cache, defaultID, lastReload, cacheMu,
                    disk, now >>

\* GetReloadTimestamp between reloadMu.Lock and Unlock; c.OK("reloaded")
RespondReloaded(g) ==
    /\ get[g].pc = "reloaded"
    /\ reloadMu = NoOne
    /\ get' = [get EXCEPT ![g].pc = "responded", ![g].response =
                  Response(200, "reloaded", NoChecksum, [timestamp |-> lastReload])]
    /\ UNCHANGED << Configurations, ids, cache, defaultID, lastReload, reloadMu,
                    cacheMu, disk, now, reload >>

\* the ETags a client may hold: those of the bundles of either generation
KnownETags ==
    {BuildBundle(Configurations[i], d, ZeroTime).bundle.Checksum :
        i \in DOMAIN Configurations, d \in {DirV1, DirV2}}

\* the requests of the clients of the three routes: metadata of source A or
\* none, with or without the API key and the basic credentials
HandlerRequests(etags) ==
    {Request(query, EmptyMap, apiKey, basicAuth, ifNoneMatch) :
        query \in {EmptyMap, [env |-> "prod"]},
        apiKey \in {"", "key1"},
        basicAuth \in {NoBasicAuth, BasicAuth("admin", "secret")},
        ifNoneMatch \in {NoChecksum} \cup etags}

\* one client after the other on /config, /stats and /reload, while the
\* directories are rewritten
NextHandlers ==
    \/ \E g \in Getters :
          \/ \E r \in HandlerRequests(KnownETags) : ReceiveGetConfig(g, r)
          \/ \E r \in HandlerRequests({}) : ReceiveGetStats(g, r)
          \/ \E r \in HandlerRequests({}) : ReceiveReloadConfig(g, r)
          \/ CallConfigBundle(g)
          \/ RLockCacheMu(g)
          \/ ReadCache(g)
          \/ RespondGetConfig(g)
          \/ Authorize(g)
          \/ CountConfigs(g)
          \/ RespondGetStats(g)
          \/ CallProviderReload(g, "r1")
          \/ ReturnProviderReload(g, "r1")
          \/ RespondReloaded(g)
          \/ CompleteRequest(g)
    \/ \E r \in {"r1"} :
          \/ LockReloadMu(r)
          \/ LockCacheMu(r)
          \/ ClearCache(r)
          \/ BuildKey(r)
          \/ LoadDirectory(r)
          \/ StoreBundle(r)
          \/ SetDefaultID(r)
          \/ FinishLoad(r)
    \/ \E d \in DOMAIN disk, files \in {DirV1, DirV2, DirBad} : EditDirectory(d, files)

SpecHandlers == InitWith(AuthConfigFiles) /\ [][NextHandlers]_vars

\* startup, reloads and resolves as in SpecStartup, with /healthz requests
NextHealth ==
    \/ NextStartup
    \/ \E g \in Getters :
          \/ \E r \in HandlerRequests({}) : HealthCheck(g, r)
          \/ CompleteRequest(g)

SpecHealth == InitStartup /\ [][NextHealth]_vars

(***************************************************************************)
(* The locks: Reload, GetConfig, GetStats and GetReloadTimestamp called    *)
(* from several goroutines                                                 *)
(***************************************************************************)

\* goroutines calling GetConfig, GetStats and GetReloadTimestamp
Callers == {"g1", "g2"}

\* one source, A{env:prod}, marked default: every iteration of the loop of
\* initialize takes and releases the locks in the same way
LockConfigFiles == { << Configuration("d1", TRUE, SrcA) >> }

\* a request that matches a source, and one that matches none
LockRequests == {[env |-> "prod"], EmptyMap}

\* p.cacheMu.Lock() called while readers hold the lock: sync.RWMutex
\* announces the writer, which makes every later RLock wait, and the writer
\* waits for the readers that are inside
ClaimCacheMu(r) ==
    /\ reload[r].pc \in {"clearLock", "storeLock"}
    /\ cacheMu.writer = NoOne
    /\ cacheMu.readers # {}
    /\ cacheMu' = [cacheMu EXCEPT !.writer = r]
    /\ UNCHANGED << Configurations, ids, cache, defaultID, lastReload, reloadMu,
                    disk, now, reload, get >>

\* p.cacheMu.Lock() returns to the announced writer: the last reader has left
EnterCacheMu(r) ==
    /\ reload[r].pc \in {"clearLock", "storeLock"}
    /\ cacheMu.writer = r
    /\ cacheMu.readers = {}
    /\ reload' = [reload EXCEPT
                    ![r].pc = IF reload[r].pc = "clearLock" THEN "clear" ELSE "store"]
    /\ UNCHANGED << Configurations, ids, cache, defaultID, lastReload, reloadMu,
                    cacheMu, disk, now, get >>

\* GetStats is called and reaches p.cacheMu.RLock()
CallGetStats(g) ==
    /\ get[g].pc = "idle"
    /\ get' = [get EXCEPT ![g].pc = "statsRLock"]
    /\ UNCHANGED << Configurations, ids, cache, defaultID, lastReload, reloadMu,
                    cacheMu, disk, now, reload >>

\* p.cacheMu.RLock() returns in GetStats: no writer holds or has announced
RLockStats(g) ==
    /\ get[g].pc = "statsRLock"
    /\ cacheMu.writer = NoOne
    /\ cacheMu' = [cacheMu EXCEPT !.readers = @ \cup {g}]
    /\ get' = [get EXCEPT ![g].pc = "count"]
    /\ UNCHANGED << Configurations, ids, cache, defaultID, lastReload, reloadMu,
                    disk, now, reload >>

\* CountUnlock that calls GetReloadTimestamp with the read lock still held
CountKeepRLock(g) ==
    /\ get[g].pc = "count"
    /\ get' = [get EXCEPT ![g].pc = "tsLock",
                          ![g].result = [ConfigsLoaded |-> Cardinality(DOMAIN cache)]]
    /\ UNCHANGED << Configurations, ids, cache, defaultID, lastReload, reloadMu,
                    cacheMu, disk, now, reload >>

\* configCount := len(p.cache); p.cacheMu.RUnlock(); GetStats then calls
\* GetReloadTimestamp, which reaches p.reloadMu.Lock()
CountUnlock(g) ==
    /\ get[g].pc = "count"
    /\ cacheMu' = [cacheMu EXCEPT !.readers = @ \ {g}]
    /\ get' = [get EXCEPT ![g].pc = "tsLock",
                          ![g].result = [ConfigsLoaded |-> Cardinality(DOMAIN cache)]]
    /\ UNCHANGED << Configurations, ids, cache, defaultID, lastReload, reloadMu,
                    disk, now, reload >>

\* GetReloadTimestamp is called by itself and reaches p.reloadMu.Lock()
CallGetReloadTimestamp(g) ==
    /\ get[g].pc = "idle"
    /\ get' = [get EXCEPT ![g].pc = "tsLock"]
    /\ UNCHANGED << Configurations, ids, cache, defaultID, lastReload, reloadMu,
                    cacheMu, disk, now, reload >>

\* p.reloadMu.Lock() returns in GetReloadTimestamp
LockTimestamp(g) ==
    /\ get[g].pc = "tsLock"
    /\ reloadMu = NoOne
    /\ reloadMu' = g
    /\ get' = [get EXCEPT ![g].pc = "tsRead"]
    /\ UNCHANGED << Configurations, ids, cache, defaultID, lastReload, cacheMu,
                    disk, now, reload >>

\* return p.lastReload, then the deferred p.reloadMu.Unlock(); GetStats
\* puts the timestamp beside its count
ReadTimestamp(g) ==
    /\ get[g].pc = "tsRead"
    /\ reloadMu' = NoOne
    /\ get' = [get EXCEPT ![g].pc = "done", ![g].result =
                  IF get[g].result = NoResult
                  THEN [LastReload |-> lastReload]
                  ELSE [ConfigsLoaded |-> get[g].result.ConfigsLoaded,
                        LastReload |-> lastReload]]
    /\ UNCHANGED << Configurations, ids, cache, defaultID, lastReload, cacheMu,
                    disk, now, reload >>

\* the steps of initialize once Reload has been called
Initialize(r) ==
    \/ LockReloadMu(r)
    \/ ClaimCacheMu(r)
    \/ LockCacheMu(r)
    \/ EnterCacheMu(r)
    \/ ClearCache(r)
    \/ BuildKey(r)
    \/ LoadDirectory(r)
    \/ StoreBundle(r)
    \/ SetDefaultID(r)
    \/ FinishLoad(r)
    \/ UnlockReloadMu(r)

\* the steps of GetConfig, GetStats and GetReloadTimestamp once called
Proceed(g) ==
    \/ RLockCacheMu(g)
    \/ ReadCache(g)
    \/ RLockStats(g)
    \/ CountUnlock(g)
    \/ LockTimestamp(g)
    \/ ReadTimestamp(g)

\* every interleaving of the calls, while directories are rewritten
NextLocks ==
    \/ \E r \in Reloaders :
          \/ CallReload(r)
          \/ Initialize(r)
    \/ \E g \in Callers :
          \/ \E metadata \in LockRequests : CallGetConfig(g, metadata)
          \/ CallGetStats(g)
          \/ CallGetReloadTimestamp(g)
          \/ Proceed(g)
          \/ ReturnGetConfig(g)
    \/ \E d \in DOMAIN disk, files \in {DirV1, DirBad} : EditDirectory(d, files)

\* the Go scheduler runs every goroutine that can run, so each step of a
\* call that stays possible is taken; sync.Mutex hands the lock to a
\* goroutine that has waited (starvation mode), so one that finds reloadMu
\* free again and again gets it. No call has to be made, no result has to be
\* picked up, no directory has to be rewritten.
FairLocks ==
    /\ \A r \in Reloaders :
          /\ SF_vars(LockReloadMu(r))
          /\ WF_vars(Initialize(r))
    /\ \A g \in Callers :
          /\ SF_vars(LockTimestamp(g))
          /\ WF_vars(Proceed(g))

SpecLocks == InitThreads(LockConfigFiles, Callers) /\ [][NextLocks]_vars /\ FairLocks

\* one source that declares its metadata key in lower case, one that
\* declares it capitalised, and one in lower case that is marked default
CaseConfigFiles ==
    { << Configuration("d1", FALSE, [env |-> "prod"]) >>,
      << Configuration("d1", FALSE, [Env |-> "prod"]) >>,
      << Configuration("d1", TRUE, [env |-> "prod"]) >> }

\* requests that give the key in a query parameter, in either case, or in a
\* header (net/http stores header names in canonical form)
CaseRequests ==
    {Request(m[1], m[2], "", NoBasicAuth, NoChecksum) :
        m \in {<< [env |-> "prod"], EmptyMap >>,
               << [Env |-> "prod"], EmptyMap >>,
               << EmptyMap, [h \in {"X-Goma-Meta-Env"} |-> "prod"] >>}}

\* GET /config requests with metadata keys in either letter case
NextCase ==
    \/ \E r \in {"r1"} :
          \/ CallReload(r)
          \/ LockReloadMu(r)
          \/ LockCacheMu(r)
          \/ ClearCache(r)
          \/ BuildKey(r)
          \/ LoadDirectory(r)
          \/ StoreBundle(r)
          \/ SetDefaultID(r)
          \/ FinishLoad(r)
          \/ UnlockReloadMu(r)
    \/ \E g \in Getters :
          \/ \E r \in CaseRequests : ReceiveGetConfig(g, r)
          \/ CallConfigBundle(g)
          \/ RLockCacheMu(g)
          \/ ReadCache(g)
          \/ RespondGetConfig(g)
          \/ CompleteRequest(g)

SpecCase == InitWith(CaseConfigFiles) /\ [][NextCase]_vars

\* GET /config requests served while one caller reloads
NextService ==
    \/ \E r \in {"r1"} :
          \/ CallReload(r)
          \/ LockReloadMu(r)
          \/ LockCacheMu(r)
          \/ ClearCache(r)
          \/ BuildKey(r)
          \/ LoadDirectory(r)
          \/ StoreBundle(r)
          \/ SetDefaultID(r)
          \/ FinishLoad(r)
          \/ UnlockReloadMu(r)
    \/ \E g \in Getters :
          \/ \E r \in ServiceRequests({cache[k].ETag : k \in DOMAIN cache}) :
                ReceiveGetConfig(g, r)
          \/ CallConfigBundle(g)
          \/ RLockCacheMu(g)
          \/ ReadCache(g)
          \/ RespondGetConfig(g)
          \/ CompleteRequest(g)

SpecService == InitWith(AuthConfigFiles) /\ [][NextService]_vars

(***************************************************************************)
(* Notions the properties are stated with                                  *)
(***************************************************************************)

\* the Reload call r is inside initialize, between locking and unlocking
\* reloadMu
InInitialize(r) == reload[r].pc \notin {"idle", "lock"}

\* the Reload call r is loading: past the clearing of the cache, building a
\* key or reading a directory
Loading(r) == reload[r].pc \in {"key", "load"}

\* the score of the specification: the request keys the source declares
\* with the value the request gives them
DeclaredScore(cfg, metadata) ==
    Cardinality({k \in DOMAIN metadata \cap DOMAIN cfg.Metadata :
                    cfg.Metadata[k] = metadata[k]})

HighestDeclared(metadata) ==
    CHOOSE s \in 0..Cardinality(MetaKeys) :
        /\ \E i \in DOMAIN Configurations :
              DeclaredScore(Configurations[i], metadata) = s
        /\ \A i \in DOMAIN Configurations :
              DeclaredScore(Configurations[i], metadata) <= s

\* the sources whose declared score is the highest one
Highest(metadata) ==
    {i \in DOMAIN Configurations :
        DeclaredScore(Configurations[i], metadata) = HighestDeclared(metadata)}

HasDefault == \E i \in DOMAIN Configurations : Configurations[i].Default

\* a GetConfig call that has run matchConfiguration
Matched(g) == get[g].pc \in {"rlock", "read", "done"}

(***************************************************************************)
(* C1: a Resolve that runs while a Reload is in progress sees a complete   *)
(* index. Stated on the getter that holds the read lock during a reload    *)
(* and is about to look its source up: if the index the reload started     *)
(* from had that source loaded, the cache has an entry for it now, so the  *)
(* lookup does not end in 'not loaded'.                                    *)
(***************************************************************************)
C1_ResolveSeesWholeIndex ==
    \A g \in Getters :
        (get[g].pc = "read" /\ reloadMu \in Reloaders) =>
            LET pre == reload[reloadMu].pre
            IN pre.ids[get[g].cfg] \in DOMAIN pre.cache =>
                  Lookup(get[g].cfg, Index).err = ErrNil

(***************************************************************************)
(* C2: when initialize is about to return an error, Resolve answers every  *)
(* request as it did on the index the reload started from: same source,    *)
(* same bundle, same error.                                                *)
(***************************************************************************)
C2_FailedReloadKeepsIndex ==
    \A r \in Reloaders :
        (reload[r].pc = "unlock" /\ reload[r].err # ErrNil) =>
            \A metadata \in Requests :
                GetConfig(metadata, Index) = GetConfig(metadata, reload[r].pre)

(***************************************************************************)
(* C3: Resolve never waits for the loading phase of a Reload. No getter    *)
(* ever holds reloadMu; a Reload holds cacheMu as writer only in the two   *)
(* map updates (clearing the cache, storing one entry); and while a Reload *)
(* is loading, a getter waiting for the read lock can take it.             *)
(***************************************************************************)
C3_ResolveNeverWaitsForLoad ==
    /\ reloadMu \notin Getters
    /\ \A r \in Reloaders :
          cacheMu.writer = r => reload[r].pc \in {"clear", "store"}
    /\ \A g \in Getters :
          (get[g].pc = "rlock" /\ \E r \in Reloaders : Loading(r)) =>
              ENABLED RLockCacheMu(g)

\* a getter takes the read lock and reads while a Reload is reading a
\* directory
C3_Witness ==
    \E g \in Getters, r \in Reloaders :
        get[g].pc = "read" /\ reload[r].pc = "load"

(***************************************************************************)
(* C4: Reload calls are serialized. At most one call is inside initialize, *)
(* that call is the holder of reloadMu, and only it writes the cache.      *)
(***************************************************************************)
C4_ReloadsSerialized ==
    /\ Cardinality({r \in Reloaders : InInitialize(r)}) <= 1
    /\ \A r \in Reloaders : InInitialize(r) => reloadMu = r
    /\ cacheMu.writer \in Reloaders => cacheMu.writer = reloadMu

\* one Reload is storing an entry while the other waits for reloadMu
C4_Witness ==
    \E r, w \in Reloaders :
        r # w /\ reload[r].pc = "store" /\ reload[w].pc = "lock"

(***************************************************************************)
(* C5: when some source has a positive declared score, the source Resolve  *)
(* selects has the highest declared score.                                 *)
(***************************************************************************)
C5_SelectsHighestScore ==
    \A g \in Getters :
        (Matched(g) /\ HighestDeclared(get[g].metadata) > 0) =>
            get[g].cfg \in Highest(get[g].metadata)

(***************************************************************************)
(* C6: when several sources share the highest positive declared score,     *)
(* Resolve selects the one declared first.                                 *)
(***************************************************************************)
C6_TieGoesToFirstDeclared ==
    \A g \in Getters :
        ( /\ Matched(g)
          /\ HighestDeclared(get[g].metadata) > 0
          /\ Cardinality(Highest(get[g].metadata)) > 1 ) =>
            /\ get[g].cfg \in Highest(get[g].metadata)
            /\ \A i \in Highest(get[g].metadata) : get[g].cfg <= i

(***************************************************************************)
(* C7: when no source has a positive declared score and a source is marked *)
(* default, a finished Resolve has selected the default source.            *)
(***************************************************************************)
C7_FallsBackToDefault ==
    \A g \in Getters :
        ( /\ get[g].pc = "done"
          /\ HighestDeclared(get[g].metadata) = 0
          /\ HasDefault ) =>
            /\ get[g].cfg # NoCfg
            /\ Configurations[get[g].cfg].Default

(***************************************************************************)
(* C8: when no source has a positive declared score and no source is       *)
(* marked default, Resolve returns the not-found error, no source and no   *)
(* bundle.                                                                 *)
(***************************************************************************)
C8_NotFoundWithoutDefault ==
    \A g \in Getters :
        ( /\ get[g].pc = "done"
          /\ HighestDeclared(get[g].metadata) = 0
          /\ ~HasDefault ) =>
            get[g].result = Result(ErrNotFound, NoCfg, NoBundle)

(***************************************************************************)
(* C9: a source selected by score, not by the default fallback, declares   *)
(* some request key with the request's value: its declared score is        *)
(* positive, and the score the selection used counts no key the source     *)
(* does not declare.                                                       *)
(***************************************************************************)
C9_ScoreCountsDeclaredKeysOnly ==
    \A g \in Getters :
        ( /\ Matched(g)
          /\ get[g].cfg = BestFrom(1, NoCfg, 0, get[g].metadata)
          /\ get[g].cfg # NoCfg ) =>
            /\ DeclaredScore(Configurations[get[g].cfg], get[g].metadata) > 0
            /\ Score(Configurations[get[g].cfg], get[g].metadata)
                 = DeclaredScore(Configurations[get[g].cfg], get[g].metadata)

(***************************************************************************)
(* C10: a source that is not marked default is returned by Resolve only    *)
(* when the request carries every metadata key the source declares, with   *)
(* the declared value.                                                     *)
(***************************************************************************)
C10_NonDefaultNeedsExactMatch ==
    \A g \in Getters :
        ( /\ get[g].pc = "done"
          /\ get[g].result.err = ErrNil
          /\ ~Configurations[get[g].result.cfg].Default ) =>
            \A k \in DOMAIN Configurations[get[g].result.cfg].Metadata :
                /\ k \in DOMAIN get[g].metadata
                /\ get[g].metadata[k] = Configurations[get[g].result.cfg].Metadata[k]

(***************************************************************************)
(* C13: the key BuildCacheKey derives from a source's metadata does not    *)
(* depend on the order in which the map is visited, so while a Reload      *)
(* rebuilds the index every source keeps the id it had before the reload.  *)
(***************************************************************************)
C13_KeyIndependentOfOrder ==
    \A r \in Reloaders :
        InInitialize(r) =>
            \A i \in DOMAIN ids : ids[i] = reload[r].pre.ids[i]

(***************************************************************************)
(* C16: bundles with equal version, routes, middlewares and metadata have  *)
(* equal fingerprints whatever their timestamps and stored checksums are:  *)
(* the checksum kept with a bundle is the one calculateChecksum gives for  *)
(* the bundle as stored, and the entry's ETag is that checksum.            *)
(***************************************************************************)
SameContent(a, b) ==
    /\ a.Version = b.Version
    /\ a.Routes = b.Routes
    /\ a.Middlewares = b.Middlewares
    /\ a.Metadata = b.Metadata

\* the bundles of the cache and of the index a running Reload started from
StoredBundles ==
    {cache[k].Bundle : k \in DOMAIN cache} \cup
    UNION {{reload[r].pre.cache[k].Bundle : k \in DOMAIN reload[r].pre.cache} :
             r \in {q \in Reloaders : InInitialize(q)}}

C16_FingerprintIgnoresVolatileFields ==
    /\ \A a, b \in StoredBundles :
          SameContent(a, b) =>
              /\ calculateChecksum(a) = calculateChecksum(b)
              /\ a.Checksum = b.Checksum
    /\ \A a \in StoredBundles : a.Checksum = calculateChecksum(a)
    /\ \A k \in DOMAIN cache : cache[k].ETag = calculateChecksum(cache[k].Bundle)

\* a reloaded bundle and the bundle it replaces: same content, later timestamp
C16_Witness ==
    \E r \in Reloaders :
        /\ InInitialize(r)
        /\ \E a \in {cache[k].Bundle : k \in DOMAIN cache} :
           \E b \in {reload[r].pre.cache[k].Bundle : k \in DOMAIN reload[r].pre.cache} :
              SameContent(a, b) /\ a.Timestamp # b.Timestamp

(***************************************************************************)
(* C19: lastReload is written only by a Reload that completes without      *)
(* error. The step on which initialize decides its return value advances   *)
(* lastReload to the current time when it returns nil and leaves it alone  *)
(* when it returns an error, and no other step changes lastReload.         *)
(***************************************************************************)
Returns(r) == reload[r].pc # "unlock" /\ reload'[r].pc = "unlock"

C19_LastReloadOnSuccessOnly ==
    [][ /\ \A r \in Reloaders :
              Returns(r) =>
                  IF reload'[r].err = ErrNil
                  THEN lastReload' > lastReload /\ lastReload' = now
                  ELSE lastReload' = lastReload
        /\ lastReload' # lastReload =>
              \E r \in Reloaders : Returns(r) /\ reload'[r].err = ErrNil ]_vars

\* a Reload fails after an earlier one succeeded: lastReload is the time of
\* the earlier one
C19_Witness ==
    \E r \in Reloaders :
        /\ reload[r].pc = "unlock"
        /\ reload[r].err # ErrNil
        /\ lastReload > 0
        /\ lastReload < now

(***************************************************************************)
(* C20: Reload is idempotent. When a Reload that started from a completely *)
(* loaded index succeeds over unchanged directories, Resolve answers every *)
(* request as before (same source, same error, same bundle content and     *)
(* fingerprint), the same sources are cached and the cache has the same    *)
(* number of entries.                                                      *)
(***************************************************************************)
Complete(idx) == \A i \in DOMAIN idx.ids : idx.ids[i] \in DOMAIN idx.cache

CachedSources(idx) == {i \in DOMAIN idx.ids : idx.ids[i] \in DOMAIN idx.cache}

SameAnswer(a, b) ==
    /\ a.err = b.err
    /\ a.cfg = b.cfg
    /\ a.err = ErrNil =>
          SameContent(a.bundle, b.bundle) /\ a.bundle.Checksum = b.bundle.Checksum

\* every directory holds the files the bundle of its source was loaded from
DirectoriesUnchanged(idx) ==
    \A i \in CachedSources(idx) :
        /\ ~loadConfigFromDirectory(disk[Configurations[i].Directory]).err
        /\ SameContent(idx.cache[idx.ids[i]].Bundle,
                       BuildBundle(Configurations[i],
                                   disk[Configurations[i].Directory], now).bundle)

C20_ReloadIdempotent ==
    \A r \in Reloaders :
        ( /\ reload[r].pc = "unlock"
          /\ reload[r].err = ErrNil
          /\ Complete(reload[r].pre)
          /\ DirectoriesUnchanged(reload[r].pre) ) =>
            /\ \A metadata \in Requests :
                  SameAnswer(GetConfig(metadata, Index),
                             GetConfig(metadata, reload[r].pre))
            /\ CachedSources(Index) = CachedSources(reload[r].pre)
            /\ Cardinality(DOMAIN cache) = Cardinality(DOMAIN reload[r].pre.cache)

\* a successful Reload has rebuilt the key of a source in the other order
C20_Witness ==
    \E r \in Reloaders :
        /\ reload[r].pc = "unlock"
        /\ reload[r].err = ErrNil
        /\ Complete(reload[r].pre)
        /\ DirectoriesUnchanged(reload[r].pre)
        /\ \E i \in DOMAIN ids : ids[i] # reload[r].pre.ids[i]

(***************************************************************************)
(* C17: Resolve is a pure read. No step of GetConfig changes the sources,  *)
(* the ids, the cache, defaultID or lastReload. When GetConfig returns     *)
(* while no Reload is running and no Reload has moved the selection it     *)
(* made, its result is the function GetConfig of the request metadata and  *)
(* the index, so two calls with the same metadata and no Reload between    *)
(* them return the same source and the same bundle.                        *)
(***************************************************************************)
C17_ResolveIsPureRead ==
    [][ \A g \in Getters :
          get'[g] # get[g] =>
              /\ UNCHANGED << Configurations, ids, cache, defaultID, lastReload >>
              /\ ( /\ get'[g].pc = "done"
                   /\ \A r \in Reloaders : ~InInitialize(r)
                   /\ get'[g].cfg = matchConfiguration(get'[g].metadata, Index) ) =>
                     get'[g].result = GetConfig(get'[g].metadata, Index) ]_vars

\* GetConfig has returned a bundle from an index a Reload rebuilt
C17_Witness ==
    \E g \in Getters :
        /\ get[g].pc = "done"
        /\ get[g].result.err = ErrNil
        /\ lastReload > 0
        /\ \A r \in Reloaders : ~InInitialize(r)

(***************************************************************************)
(* C11: a source that declares an auth requirement accepts a request only  *)
(* with its API key in X-API-Key or with its basic-auth username and       *)
(* password: whenever the GetConfig handler answers a request resolved to  *)
(* such a source with the bundle or with "No change", the request carried  *)
(* one of the two.                                                         *)
(***************************************************************************)
\* the source the handler resolved the request of g to
Resolved(g) == Configurations[get[g].result.cfg]

Answered(g) == get[g].pc = "responded"

Accepted(g) == Answered(g) /\ get[g].response.status \in {200, 304}

CarriesAPIKey(r, auth) == auth.APIKey # "" /\ r.APIKey = auth.APIKey

CarriesBasicAuth(r, auth) ==
    /\ auth.BasicAuth # NoBasicAuth
    /\ r.BasicAuth = auth.BasicAuth

C11_AuthRequiresCredentials ==
    \A g \in Getters :
        (Accepted(g) /\ Resolved(g).Auth # NoAuth) =>
            \/ CarriesAPIKey(get[g].request, Resolved(g).Auth)
            \/ CarriesBasicAuth(get[g].request, Resolved(g).Auth)

(***************************************************************************)
(* C12: authentication is not required for the default source: a request   *)
(* resolved to a source marked default is never answered "Unauthorized".   *)
(***************************************************************************)
C12_DefaultNeedsNoAuth ==
    \A g \in Getters :
        ( /\ Answered(g)
          /\ get[g].result.err = ErrNil
          /\ Resolved(g).Default ) =>
            get[g].response.status # 401

(***************************************************************************)
(* C18: when the resolved source has no cache entry the HTTP layer answers *)
(* with a server fault, not with the "Config not found" response it gives  *)
(* when no source matches.                                                 *)
(***************************************************************************)
C18_NotLoadedIsServerFault ==
    \A g \in Getters :
        (Answered(g) /\ get[g].result.err = ErrNotLoaded) =>
            /\ get[g].response.status >= 500
            /\ get[g].response.message # "Config not found"

(***************************************************************************)
(* C14: building the index over a source list in which two sources declare *)
(* identical metadata never succeeds: initialize does not return nil, at   *)
(* startup or on Reload, whatever the number of metadata keys and the      *)
(* order in which the maps are visited.                                    *)
(***************************************************************************)
DuplicateMetadata ==
    \E i, j \in DOMAIN Configurations :
        i # j /\ Configurations[i].Metadata = Configurations[j].Metadata

C14_DuplicateMetadataRejected ==
    DuplicateMetadata =>
        \A r \in Reloaders :
            reload[r].pc = "unlock" => reload[r].err # ErrNil

(***************************************************************************)
(* C15: a source list with more than one default source fails validation   *)
(* at startup: the provider is never constructed, nothing is published and *)
(* nothing is served, so no Reload ever builds an index with two defaults. *)
(* The error is the one about the defaults unless a source of the list     *)
(* fails a check of its own first.                                         *)
(***************************************************************************)
TwoDefaults ==
    Cardinality({i \in DOMAIN Configurations : Configurations[i].Default}) > 1

C15_TwoDefaultsRejected ==
    TwoDefaults =>
        /\ ~Serving
        /\ cache = << >>
        /\ defaultID = ""
        /\ \A r \in Reloaders :
              reload[r].boot =>
                  /\ reload[r].pc \in {"validate", "fatal"}
                  /\ reload[r].pc = "fatal" =>
                        /\ reload[r].err # ErrNil
                        /\ validateEach(Configurations, DOMAIN disk) = ErrNil =>
                              reload[r].err = ErrValidate

\* startup has ended on the validation error of a list with two defaults
C15_Witness ==
    /\ TwoDefaults
    /\ \E r \in Reloaders : reload[r].pc = "fatal" /\ reload[r].err = ErrValidate

(***************************************************************************)
(* Notions about the files of a directory                                  *)
(***************************************************************************)
\* a fragment file: extension .yaml, .yml or .json in any letter case
Recognized(f) == f.Ext \in {".yaml", ".yml", ".json", ".JSON"}

Unreadable(f) == Recognized(f) /\ ~f.Parses

\* the fragments of a directory, in traversal order
Fragments(files) == SelectSeq(files, Recognized)

RECURSIVE RoutesOf(_)
RoutesOf(fs) == IF Len(fs) = 0 THEN << >> ELSE Head(fs).Routes \o RoutesOf(Tail(fs))

RECURSIVE MiddlewaresOf(_)
MiddlewaresOf(fs) ==
    IF Len(fs) = 0 THEN << >> ELSE Head(fs).Middlewares \o MiddlewaresOf(Tail(fs))

FragmentKeys(fs) == UNION {DOMAIN fs[n].Metadata : n \in DOMAIN fs}

\* the value the fragment visited last gives to key k
LastValue(fs, k) ==
    LET n == CHOOSE n \in DOMAIN fs :
                 /\ k \in DOMAIN fs[n].Metadata
                 /\ \A m \in DOMAIN fs : m > n => k \notin DOMAIN fs[m].Metadata
    IN fs[n].Metadata[k]

\* the load of the directory of source i has returned a bundle to initialize
Loaded(r) == reload[r].pc \in {"storeLock", "store"}

\* the directory initialize is loading, or has just loaded, in call r
Directory(r) == disk[Configurations[reload[r].i].Directory]

(***************************************************************************)
(* C22: loading a directory is all-or-nothing. When a recognized fragment  *)
(* of the directory cannot be read or parsed, the load returns an error    *)
(* and no bundle: initialize gets no bundle to store, nothing is cached,   *)
(* and it returns the load error.                                          *)
(***************************************************************************)
C22_LoadAllOrNothing ==
    \A r \in Reloaders :
        ( /\ reload[r].boot
          /\ \E n \in DOMAIN disk["d1"] : Unreadable(disk["d1"][n]) ) =>
            /\ ~Loaded(r)
            /\ reload[r].bundle = NoBundle
            /\ cache = << >>
            /\ reload[r].pc \in {"validate", "lock", "clearLock", "clear", "key",
                                 "load", "unlock", "fatal"}
            /\ reload[r].pc \in {"unlock", "fatal"} => reload[r].err = ErrLoad

\* the load has failed on a fragment visited after a well-formed one
C22_Witness ==
    \E r \in Reloaders :
        /\ reload[r].pc = "fatal"
        /\ reload[r].err = ErrLoad
        /\ \E n, m \in DOMAIN disk["d1"] :
              /\ n < m
              /\ Recognized(disk["d1"][n]) /\ disk["d1"][n].Parses
              /\ Unreadable(disk["d1"][m])

(***************************************************************************)
(* C26: in every published bundle each key the source declares maps to the *)
(* value the source declares, whatever the fragments say, and each key     *)
(* only the fragments declare is kept with the fragments' value.           *)
(***************************************************************************)
C26_DeclaredMetadataOverrides ==
    \A i \in DOMAIN Configurations :
        ids[i] \in DOMAIN cache =>
            LET published == cache[ids[i]].Bundle.Metadata
                declared == Configurations[i].Metadata
                fs == Fragments(disk[Configurations[i].Directory])
            IN /\ \A k \in DOMAIN declared :
                     k \in DOMAIN published /\ published[k] = declared[k]
               /\ \A k \in FragmentKeys(fs) \ DOMAIN declared :
                     k \in DOMAIN published /\ published[k] = LastValue(fs, k)

\* a published bundle whose fragments give a declared key another value and
\* declare a key the source does not
C26_Witness ==
    \E i \in DOMAIN Configurations :
        /\ ids[i] \in DOMAIN cache
        /\ LET declared == Configurations[i].Metadata
               fs == Fragments(disk[Configurations[i].Directory])
           IN /\ \E k \in DOMAIN declared \cap FragmentKeys(fs) :
                    LastValue(fs, k) # declared[k]
              /\ FragmentKeys(fs) \ DOMAIN declared # {}

(***************************************************************************)
(* C27: the bundle of a directory is the fold of its recognized fragments  *)
(* in traversal order: routes and middlewares are the concatenations of    *)
(* the fragments', duplicates kept; a metadata key the fragments declare   *)
(* has the value of the fragment visited last; other files add nothing.    *)
(***************************************************************************)
C27_BundleIsFoldOfFragments ==
    \A r \in Reloaders :
        Loaded(r) =>
            LET fs == Fragments(Directory(r))
                bundle == reload[r].bundle
                declared == Configurations[reload[r].i].Metadata
            IN /\ bundle.Version = "1.0"
               /\ bundle.Routes = RoutesOf(fs)
               /\ bundle.Middlewares = MiddlewaresOf(fs)
               /\ DOMAIN bundle.Metadata = FragmentKeys(fs) \cup DOMAIN declared
               /\ \A k \in FragmentKeys(fs) \ DOMAIN declared :
                     bundle.Metadata[k] = LastValue(fs, k)

\* a loaded directory with two fragments that declare the same route and
\* give the same undeclared key different values, and a file that is no
\* fragment
C27_Witness ==
    \E r \in Reloaders :
        /\ Loaded(r)
        /\ LET files == Directory(r)
               declared == Configurations[reload[r].i].Metadata
           IN /\ \E n \in DOMAIN files : ~Recognized(files[n])
              /\ \E n, m \in DOMAIN files :
                    /\ n < m
                    /\ Recognized(files[n]) /\ Recognized(files[m])
                    /\ files[n].Routes = files[m].Routes
                    /\ files[n].Routes # << >>
                    /\ \E k \in (DOMAIN files[n].Metadata \cap
                                  DOMAIN files[m].Metadata) \ DOMAIN declared :
                          files[n].Metadata[k] # files[m].Metadata[k]

(***************************************************************************)
(* C24: whenever no reload is in progress the keys of the cache are the    *)
(* ids of the sources, one entry per source and none extra, so the         *)
(* ConfigsLoaded of GetStats is the number of configured sources.          *)
(***************************************************************************)
C24_OneEntryPerSource ==
    (\A r \in Reloaders : ~InInitialize(r)) =>
        /\ DOMAIN cache = {ids[i] : i \in DOMAIN ids}
        /\ GetStats.ConfigsLoaded = Len(Configurations)

(***************************************************************************)
(* C25: Reload mutates nothing a concurrent reader can reach. A bundle in  *)
(* the cache has its metadata, checksum and timestamp and is only replaced *)
(* by the holder of the cache write lock, and initialize does not assign a *)
(* source's id while a reader is inside GetConfig about to read it.        *)
(***************************************************************************)
\* the step assigns cfg.ID = p.BuildCacheKey(cfg.Metadata) in call r
AssignsID(r) ==
    /\ reload[r].pc = "key"
    /\ reload[r].i <= Len(Configurations)
    /\ reload'[r].pc \in {"load", "unlock"}

\* g holds the read lock and is about to read cfg.ID for p.cache[cfg.ID]
ReadsID(g) == get[g].pc = "read"

BundlesWrittenOnce ==
    /\ \A k \in DOMAIN cache' :
          /\ cache'[k].Bundle.Checksum = calculateChecksum(cache'[k].Bundle)
          /\ cache'[k].Bundle.Timestamp <= now
          /\ DOMAIN cache'[k].Bundle.Metadata # {}
    /\ cache' # cache => cacheMu.writer # NoOne

C25_NoWriteUnderReaders ==
    [][ /\ BundlesWrittenOnce
        /\ \A r \in Reloaders :
              AssignsID(r) => \A g \in Getters : ~ReadsID(g) ]_vars

(***************************************************************************)
(* C21: metadata keys are case-insensitive. When the keys of a request,    *)
(* from a query parameter or from an X-Goma-Meta- header, and the keys a   *)
(* source declares are the same up to letter case and have the same        *)
(* values, Resolve selects that source.                                    *)
(***************************************************************************)
\* the key-value pairs of a map with the keys folded to lower case
Folded(m) == {<< ToLower(k), m[k] >> : k \in DOMAIN m}

\* the pairs a request gives, in its query and in its metadata headers
RequestPairs(r) ==
    Folded(r.Query) \cup
    {<< ToLower(MetaKey(h)), r.Header[h] >> :
        h \in {n \in DOMAIN r.Header : HasMetaPrefix(n)}}

C21_KeysCaseInsensitive ==
    \A g \in Getters :
        get[g].pc \in {"done", "responded"} =>
            \A i \in DOMAIN Configurations :
                Folded(Configurations[i].Metadata) = RequestPairs(get[g].request) =>
                    get[g].cfg = i

(***************************************************************************)
(* C23: the health-check handler answers 200 "healthy" in every state of   *)
(* the service: a /healthz request can be answered whenever the handler is *)
(* free, with no provider constructed, during a reload and after a failed  *)
(* one, and its answer is made without resolving a configuration.          *)
(***************************************************************************)
Free(g) == get[g].pc = "idle" /\ get[g].request = NoRequest

C23_HealthAlwaysAnswers ==
    \A g \in Getters :
        /\ Free(g) => \A r \in HandlerRequests({}) : ENABLED HealthCheck(g, r)
        /\ (Answered(g) /\ get[g].request.Route = "/healthz") =>
              /\ get[g].response.status = 200
              /\ get[g].response.message = "healthy"
              /\ get[g].result = NoResult
              /\ get[g].cfg = NoCfg

\* /healthz is answered while a reload has emptied the cache
C23_Witness ==
    \E g \in Getters :
        /\ Answered(g)
        /\ get[g].request.Route = "/healthz"
        /\ Serving
        /\ \E r \in Reloaders : InInitialize(r)
        /\ cache = << >>

(***************************************************************************)
(* C28: in the GetConfig, GetStats and ReloadConfig handlers the action    *)
(* comes after resolution and authentication. A request whose resolution   *)
(* failed is answered "Config not found", one Authenticate rejected is     *)
(* answered "Unauthorized"; neither gets a body, neither is past the       *)
(* authorization of its handler, and Provider.Reload runs only for a       *)
(* request that passed both.                                               *)
(***************************************************************************)
\* the request of g has been resolved and Authenticate accepts it
Passed(g) ==
    /\ get[g].result.err = ErrNil
    /\ Authenticate(get[g].request, Configurations[get[g].result.cfg])

\* g is in the action of its handler: statistics or reload
Acting(g) == get[g].pc \in {"stats", "timestamp", "reload", "reloading", "reloaded"}

C28_ActionAfterAuthorization ==
    /\ \A g \in Getters :
          /\ Acting(g) => Passed(g)
          /\ Answered(g) =>
                /\ get[g].result.err # ErrNil =>
                      /\ get[g].response.status = 404
                      /\ get[g].response.message = "Config not found"
                /\ (get[g].result.err = ErrNil /\ ~Passed(g)) =>
                      /\ get[g].response.status = 401
                      /\ get[g].response.message = "Unauthorized"
                /\ ~Passed(g) => get[g].response.body = NoBundle
                /\ Passed(g) => get[g].response.status \in {200, 304, 500}
    /\ \A r \in Reloaders :
          reload[r].pc # "idle" =>
              \E g \in Getters : get[g].pc = "reloading" /\ Passed(g)

\* a /reload request with the wrong credentials has been answered
\* "Unauthorized" by a source that checks them
C28_Witness ==
    \E g \in Getters :
        /\ Answered(g)
        /\ get[g].request.Route = "/reload"
        /\ get[g].result.err = ErrNil
        /\ get[g].response.status = 401
        /\ \A r \in Reloaders : reload[r].pc = "idle"

(***************************************************************************)
(* C29: for an authenticated GetConfig request the ETag header is the      *)
(* fingerprint of the resolved bundle; the answer is 304 without a body    *)
(* exactly when If-None-Match equals that fingerprint and otherwise 200    *)
(* with the bundle, so a client holding the fingerprint of the previous    *)
(* generation gets the new bundle.                                         *)
(***************************************************************************)
C29_ETagIsFingerprint ==
    \A g \in Getters :
        (Answered(g) /\ get[g].request.Route = "/config" /\ Passed(g)) =>
            LET bundle == get[g].result.bundle
                response == get[g].response
            IN /\ response.etag = calculateChecksum(bundle)
               /\ response.status = 304 <=>
                     get[g].request.IfNoneMatch = calculateChecksum(bundle)
               /\ response.status = 304 => response.body = NoBundle
               /\ response.status # 304 =>
                     response.status = 200 /\ response.body = bundle

\* after a reload that changed the content of its source, a client that
\* sends the fingerprint of the previous generation is answered the new bundle
C29_Witness ==
    \E g \in Getters :
        /\ Answered(g)
        /\ get[g].request.Route = "/config"
        /\ Passed(g)
        /\ get[g].response.status = 200
        /\ lastReload > 0
        /\ get[g].request.IfNoneMatch =
              BuildBundle(Resolved(g), DirV1, ZeroTime).bundle.Checksum
        /\ get[g].response.body.Checksum =
              BuildBundle(Resolved(g), DirV2, ZeroTime).bundle.Checksum

(***************************************************************************)
(* C30: a failed reload is recoverable through the reload endpoint.        *)
(* Whenever no reload is running, a /reload request that gives the         *)
(* metadata a source declares and that Authenticate accepts still resolves *)
(* and so reaches Provider.Reload.                                         *)
(***************************************************************************)
\* ReloadConfig reaches p.Provider.Reload() for request r on the index as
\* it is: configBundle returns no error and Authenticate accepts
ReachesReload(r) ==
    LET res == GetConfig(ExtractMetadata(r), Index)
    IN res.err = ErrNil /\ Authenticate(r, Configurations[res.cfg])

C30_ReloadEndpointRecovers ==
    (\A r \in Reloaders : reload[r].pc = "idle") =>
        \A i \in DOMAIN Configurations :
            \A r \in HandlerRequests({}) :
                ( /\ ExtractMetadata(r) = Configurations[i].Metadata
                  /\ Authenticate(r, Configurations[i]) ) =>
                    ReachesReload(r)

(***************************************************************************)
(* C31: no interleaving of concurrent Reload, GetConfig, GetStats and      *)
(* GetReloadTimestamp calls deadlocks. cacheMu is taken only by a          *)
(* goroutine that holds reloadMu or holds no lock, reloadMu only by one    *)
(* that holds no lock, so no goroutine waits, directly or through others,  *)
(* for itself; and with every directory load terminating, every call       *)
(* that has been made returns.                                             *)
(***************************************************************************)
\* the goroutines that hold the lock goroutine t is waiting for
WaitsFor(t) ==
    IF t \in Reloaders
    THEN IF reload[t].pc = "lock" THEN {reloadMu} \ {NoOne}
         ELSE IF reload[t].pc \in {"clearLock", "storeLock"}
         THEN ({cacheMu.writer} \ {NoOne, t}) \cup cacheMu.readers
         ELSE {}
    ELSE IF get[t].pc \in {"rlock", "statsRLock"} THEN {cacheMu.writer} \ {NoOne}
         ELSE IF get[t].pc = "tsLock" THEN {reloadMu} \ {NoOne}
         ELSE {}

\* the goroutines t waits for through at most one more, and at most three more
WaitsTwice(t) == WaitsFor(t) \cup UNION {WaitsFor(u) : u \in WaitsFor(t)}
WaitsThrough(t) == WaitsTwice(t) \cup UNION {WaitsTwice(u) : u \in WaitsTwice(t)}

\* reloadMu before cacheMu, never the other way round
LockOrder ==
    /\ \A r \in Reloaders : cacheMu.writer = r => reloadMu = r
    /\ \A g \in Callers :
          /\ g \in cacheMu.readers => reloadMu # g
          /\ get[g].pc \in {"tsLock", "tsRead"} => g \notin cacheMu.readers

\* the call of t has been made and has not returned
Called(t) ==
    IF t \in Reloaders THEN reload[t].pc # "idle" ELSE get[t].pc \notin {"idle", "done"}

C31_NoDeadlock ==
    /\ [](LockOrder /\ \A t \in Reloaders \cup Callers : t \notin WaitsThrough(t))
    /\ \A t \in Reloaders \cup Callers : Called(t) ~> ~Called(t)

\* GetStats waits in GetReloadTimestamp for reloadMu, held by a Reload that
\* has announced itself on cacheMu and waits for a GetConfig to leave it,
\* while the other Reload waits for reloadMu too
C31_Witness ==
    \E r, q \in Reloaders, g, h \in Callers :
        /\ reloadMu = r
        /\ reload[q].pc = "lock"
        /\ cacheMu.writer = r
        /\ h \in cacheMu.readers
        /\ get[g].pc = "tsLock"
        /\ get[g].result # NoResult

(***************************************************************************)
(* C32: whenever no reload is in progress and some source is marked        *)
(* default, defaultID is the current id of that source and the default     *)
(* fallback of matchConfiguration returns it, after any sequence of        *)
(* successful and failed reloads.                                          *)
(***************************************************************************)
C32_DefaultIDCurrent ==
    (\A r \in Reloaders : ~InInitialize(r)) =>
        \A i \in DOMAIN Configurations :
            Configurations[i].Default =>
                /\ defaultID = ids[i]
                /\ DefaultFallback(Index) = i
====
